---------------------------- MODULE Spec2Model ----------------------------
(***************************************************************************)
(* albumseq_cli: a persistent context (tracklists, mediums, constraints)   *)
(* and the propose command, which enumerates every ordering of a           *)
(* tracklist, keeps those that fit the medium and reach the minimum score, *)
(* sorts them by score and prints the first `count` with their sides.      *)
(*                                                                         *)
(* Durations are minutes, modelled as integers.  Positions are zero-based  *)
(* in the program and in the constraints; TLA+ sequences are one-based, so *)
(* the track at program index p is tl[p + 1].                              *)
(***************************************************************************)
EXTENDS Integers, Sequences, FiniteSets, TLC

VARIABLES ctx, cmd, out, files

vars == <<ctx, cmd, out, files>>

-----------------------------------------------------------------------------
(* Bounds of the model *)

MaxTracks == 3

MaxSides == 2

MaxCount == 2

-----------------------------------------------------------------------------
(* Input domains *)

TrackPool ==
    { [title |-> "A", duration |-> 3],
      [title |-> "B", duration |-> 4],
      [title |-> "C", duration |-> 2] }

Capacities == {3, 5}

None == [some |-> FALSE, value |-> 0]

Some(v) == [some |-> TRUE, value |-> v]

MinScores == {None, Some(3)}

AtPosition(title, pos) == [tag |-> "AtPosition", t1 |-> title, t2 |-> "", pos |-> pos]

Adjacent(a, b) == [tag |-> "Adjacent", t1 |-> a, t2 |-> b, pos |-> 0]

OnSameSide(a, b) == [tag |-> "OnSameSide", t1 |-> a, t2 |-> b, pos |-> 0]

(* The stored constraints tried.  A title is absent, or a position out of
   range, on the tracklists that lack the track or are too short. *)
ConstraintPool ==
    << [kind |-> AtPosition("B", 1), weight |-> 3],
       [kind |-> Adjacent("A", "B"), weight |-> 10],
       [kind |-> OnSameSide("A", "C"), weight |-> 2],
       [kind |-> Adjacent("A", "A"), weight |-> 1],
       [kind |-> OnSameSide("A", "A"), weight |-> 1] >>

SeqsUpTo(S, n) == UNION { [1..k -> S] : k \in 0..n }

(* The stored constraint lists tried: none, one, or two of the pool *)
ConstraintLists ==
    LET n == Len(ConstraintPool)
    IN  {<<>>} \cup { <<ConstraintPool[i]>> : i \in 1..n }
               \cup { <<ConstraintPool[p[1]], ConstraintPool[p[2]]>> :
                        p \in {q \in (1..n) \X (1..n) : q[1] < q[2]} }

-----------------------------------------------------------------------------
(* Helpers over sequences *)

RECURSIVE SumSeq(_)
SumSeq(s) == IF s = <<>> THEN 0 ELSE Head(s) + SumSeq(Tail(s))

RECURSIVE Flatten(_)
Flatten(ss) == IF ss = <<>> THEN <<>> ELSE Head(ss) \o Flatten(Tail(ss))

Durations(side) == [i \in 1..Len(side) |-> side[i].duration]

RemoveAt(s, i) == SubSeq(s, 1, i - 1) \o SubSeq(s, i + 1, Len(s))

Take(s, n) == SubSeq(s, 1, IF n < Len(s) THEN n ELSE Len(s))

RECURSIVE Factorial(_)
Factorial(n) == IF n = 0 THEN 1 ELSE n * Factorial(n - 1)

ToLowerAscii(s) ==
    CASE s = "LP" -> "lp"
      [] s = "Vinyl" -> "vinyl"
      [] OTHER -> s

eq_ignore_ascii_case(a, b) == ToLowerAscii(a) = ToLowerAscii(b)

-----------------------------------------------------------------------------
(* The albumseq library, as the design document describes it *)

(* Side Allocator, the greedy rule: a track joins the current side when the
   accumulated duration plus its own does not exceed the capacity; otherwise
   it opens the next side, provided that side's index is below medium.sides.
   A track longer than one side can never be placed. *)
RECURSIVE AllocateFrom(_, _, _, _, _)
AllocateFrom(tl, i, medium, closed, cur) ==
    IF i > Len(tl)
    THEN [feasible |-> TRUE,
          sides |-> IF cur = <<>> THEN closed ELSE Append(closed, cur)]
    ELSE LET track == tl[i]
             acc == SumSeq(Durations(cur))
             stop == [feasible |-> FALSE,
                      sides |-> IF cur = <<>> THEN closed ELSE Append(closed, cur)]
         IN  IF track.duration > medium.max_duration_per_side
             THEN stop
             ELSE IF acc + track.duration <= medium.max_duration_per_side
             THEN AllocateFrom(tl, i + 1, medium, closed, Append(cur, track))
             ELSE IF Len(closed) + 1 < medium.sides
             THEN AllocateFrom(tl, i + 1, medium, Append(closed, cur), <<track>>)
             ELSE stop

Allocate(tl, medium) == AllocateFrom(tl, 1, medium, <<>>, <<>>)

fits(medium, tl) == Allocate(tl, medium).feasible

(* Mutant: a constraint comparing a title with itself is scored as any other *)
is_satisfied_SelfCompareCounts(kind, tl, medium) ==
    CASE kind.tag = "AtPosition" ->
            /\ kind.pos < Len(tl)
            /\ tl[kind.pos + 1].title = kind.t1
      [] kind.tag = "Adjacent" ->
            /\ TRUE
            /\ \E i, j \in 1..Len(tl) :
                  /\ tl[i].title = kind.t1
                  /\ tl[j].title = kind.t2
                  /\ (i - j = 1 \/ j - i = 1)
      [] kind.tag = "OnSameSide" ->
            LET alloc == Allocate(tl, medium)
            IN  /\ TRUE
                /\ alloc.feasible
                /\ \E k \in 1..Len(alloc.sides) :
                      /\ \E i \in 1..Len(alloc.sides[k]) : alloc.sides[k][i].title = kind.t1
                      /\ \E j \in 1..Len(alloc.sides[k]) : alloc.sides[k][j].title = kind.t2
      [] OTHER -> FALSE

(* Constraint Scorer: whether one constraint kind is satisfied *)
is_satisfied(kind, tl, medium) ==
    CASE kind.tag = "AtPosition" ->
            /\ kind.pos < Len(tl)
            /\ tl[kind.pos + 1].title = kind.t1
      [] kind.tag = "Adjacent" ->
            /\ kind.t1 # kind.t2
            /\ \E i, j \in 1..Len(tl) :
                  /\ tl[i].title = kind.t1
                  /\ tl[j].title = kind.t2
                  /\ (i - j = 1 \/ j - i = 1)
      [] kind.tag = "OnSameSide" ->
            LET alloc == Allocate(tl, medium)
            IN  /\ kind.t1 # kind.t2
                /\ alloc.feasible
                /\ \E k \in 1..Len(alloc.sides) :
                      /\ \E i \in 1..Len(alloc.sides[k]) : alloc.sides[k][i].title = kind.t1
                      /\ \E j \in 1..Len(alloc.sides[k]) : alloc.sides[k][j].title = kind.t2
      [] OTHER -> FALSE

(* Constraint Scorer: the sum of the weights of the satisfied constraints *)
RECURSIVE score_tracklist(_, _, _)
score_tracklist(tl, constraints, medium) ==
    IF constraints = <<>> THEN 0
    ELSE (IF is_satisfied(Head(constraints).kind, tl, medium)
          THEN Head(constraints).weight ELSE 0)
         + score_tracklist(tl, Tail(constraints), medium)

(* Permutation Engine: every ordering of the positions 1..n, each once *)
RECURSIVE PermsOf(_)
RECURSIVE PermsPick(_, _)
PermsPick(s, i) ==
    IF i > Len(s) THEN <<>>
    ELSE LET rest == PermsOf(RemoveAt(s, i))
         IN  [k \in 1..Len(rest) |-> <<s[i]>> \o rest[k]] \o PermsPick(s, i + 1)

PermsOf(s) == IF s = <<>> THEN << <<>> >> ELSE PermsPick(s, 1)

PermTable == [n \in 0..MaxTracks |-> PermsOf([i \in 1..n |-> i])]

TracklistPermutations(tracks) == PermTable[Len(tracks)]

-----------------------------------------------------------------------------
(* Conversions between the stored and the library types (context.rs) *)

(* Mutant: the duration is not carried over *)
TrackFromSer_NoDuration(sert) == [title |-> sert.title, duration |-> 0]

TrackFromSer(sert) == [title |-> sert.title, duration |-> sert.duration]

TracklistFromSer(sertl) == [i \in 1..Len(sertl) |-> TrackFromSer(sertl[i])]

to_album_medium(m) ==
    [sides |-> m.sides,
     max_duration_per_side |-> m.max_duration_per_side,
     name |-> m.name]

(* Mutant: the Adjacent and OnSameSide arms are exchanged *)
AlbumConstraintFromSer_ArmsSwapped(serc) ==
    LET kind == CASE serc.kind.tag = "AtPosition" ->
                        AtPosition(serc.kind.t1, serc.kind.pos)
                  [] serc.kind.tag = "Adjacent" ->
                        OnSameSide(serc.kind.t1, serc.kind.t2)
                  [] serc.kind.tag = "OnSameSide" ->
                        Adjacent(serc.kind.t1, serc.kind.t2)
    IN  [kind |-> kind, weight |-> serc.weight]

(* Mutant: the weight is not carried over *)
AlbumConstraintFromSer_UnitWeight(serc) ==
    LET kind == CASE serc.kind.tag = "AtPosition" ->
                        AtPosition(serc.kind.t1, serc.kind.pos)
                  [] serc.kind.tag = "Adjacent" ->
                        Adjacent(serc.kind.t1, serc.kind.t2)
                  [] serc.kind.tag = "OnSameSide" ->
                        OnSameSide(serc.kind.t1, serc.kind.t2)
    IN  [kind |-> kind, weight |-> 1]

AlbumConstraintFromSer(serc) ==
    LET kind == CASE serc.kind.tag = "AtPosition" ->
                        AtPosition(serc.kind.t1, serc.kind.pos)
                  [] serc.kind.tag = "Adjacent" ->
                        Adjacent(serc.kind.t1, serc.kind.t2)
                  [] serc.kind.tag = "OnSameSide" ->
                        OnSameSide(serc.kind.t1, serc.kind.t2)
    IN  [kind |-> kind, weight |-> serc.weight]

-----------------------------------------------------------------------------
(* commands.rs *)

(* Mutant: a track that fills the side exactly opens the next side *)
RECURSIVE SplitLoop_StrictlyLess(_, _, _, _, _, _)
SplitLoop_StrictlyLess(tl, i, medium, sides, current_side, current_duration) ==
    IF i > Len(tl)
    THEN [sides |-> sides, current_side |-> current_side]
    ELSE LET track == tl[i]
             joins == current_duration + track.duration < medium.max_duration_per_side
             sides1 == IF joins THEN sides ELSE Append(sides, current_side)
             side1 == IF joins THEN Append(current_side, track) ELSE <<track>>
             duration1 == IF joins THEN current_duration + track.duration
                          ELSE track.duration
         IN  IF Len(sides1) = medium.sides
             THEN [sides |-> sides1, current_side |-> side1]
             ELSE SplitLoop_StrictlyLess(tl, i + 1, medium, sides1, side1, duration1)

(* The for loop of split_tracklist_by_side, from track i on; the loop is left
   at the end of the tracklist or by the break once sides.len() == medium.sides *)
RECURSIVE SplitLoop(_, _, _, _, _, _)
SplitLoop(tl, i, medium, sides, current_side, current_duration) ==
    IF i > Len(tl)
    THEN [sides |-> sides, current_side |-> current_side]
    ELSE LET track == tl[i]
             joins == current_duration + track.duration <= medium.max_duration_per_side
             sides1 == IF joins THEN sides ELSE Append(sides, current_side)
             side1 == IF joins THEN Append(current_side, track) ELSE <<track>>
             duration1 == IF joins THEN current_duration + track.duration
                          ELSE track.duration
         IN  IF Len(sides1) = medium.sides
             THEN [sides |-> sides1, current_side |-> side1]
             ELSE SplitLoop(tl, i + 1, medium, sides1, side1, duration1)

(* Mutant: the last side is pushed even when it is empty *)
split_tracklist_by_side_PushesEmptySide(tracklist, medium) ==
    LET done == SplitLoop(tracklist, 1, medium, <<>>, <<>>, 0)
    IN  Append(done.sides, done.current_side)

split_tracklist_by_side(tracklist, medium) ==
    LET done == SplitLoop(tracklist, 1, medium, <<>>, <<>>, 0)
    IN  IF done.current_side # <<>>
        THEN Append(done.sides, done.current_side)
        ELSE done.sides

(* iter().find(|x| x.name.eq_ignore_ascii_case(name)): the index of the first
   entry of that name, 0 when there is none *)
FindByName(list, name) ==
    IF \E i \in 1..Len(list) : eq_ignore_ascii_case(list[i].name, name)
    THEN CHOOSE i \in 1..Len(list) :
            /\ eq_ignore_ascii_case(list[i].name, name)
            /\ \A j \in 1..(i - 1) : ~eq_ignore_ascii_case(list[j].name, name)
    ELSE 0

(* Mutant: the first emitted ordering is skipped *)
ScoredPerms_SkipFirst(tracklist, constraints, medium) ==
    LET perms == Tail(TracklistPermutations(tracklist))
    IN  [e \in 1..Len(perms) |->
            LET tl == [i \in 1..Len(perms[e]) |-> tracklist[perms[e][i]]]
            IN  [score |-> score_tracklist(tl, constraints, medium),
                 tl |-> tl,
                 emit |-> e,
                 perm |-> perms[e]]]

(* perms.map(|perm| ..): each emitted ordering is materialised and scored.
   emit is the place of the ordering in the enumeration. *)
ScoredPerms(tracklist, constraints, medium) ==
    LET perms == TracklistPermutations(tracklist)
    IN  [e \in 1..Len(perms) |->
            LET tl == [i \in 1..Len(perms[e]) |-> tracklist[perms[e][i]]]
            IN  [score |-> score_tracklist(tl, constraints, medium),
                 tl |-> tl,
                 emit |-> e,
                 perm |-> perms[e]]]

(* Mutant: an ordering is kept when it fits or reaches the threshold *)
KeepPerm_Or(sp, medium, min_score) ==
    \/ fits(medium, sp.tl)
    \/ (min_score.some => sp.score >= min_score.value)

(* Mutant: the filter without the feasibility test *)
KeepPerm_NoFits(sp, medium, min_score) ==
    min_score.some => sp.score >= min_score.value

(* Mutant: the filter without the threshold *)
KeepPerm_NoThreshold(sp, medium, min_score) ==
    fits(medium, sp.tl)

(* .filter(|(score, tl)| medium.fits(tl) && min_score.map_or(true, |min| score >= min)) *)
KeepPerm(sp, medium, min_score) ==
    /\ fits(medium, sp.tl)
    /\ (min_score.some => sp.score >= min_score.value)

FilterPerms(scored, medium, min_score) ==
    SelectSeq(scored, LAMBDA sp : KeepPerm(sp, medium, min_score))

(* Mutant: an entry is put before the entries of its own score *)
RECURSIVE InsertByScore_TiesFirst(_, _)
InsertByScore_TiesFirst(sorted, sp) ==
    IF sorted = <<>> THEN <<sp>>
    ELSE IF Head(sorted).score > sp.score
         THEN <<Head(sorted)>> \o InsertByScore_TiesFirst(Tail(sorted), sp)
         ELSE <<sp>> \o sorted

(* scored_perms.sort_by(|a, b| b.0.cmp(&a.0)): a stable sort, score descending *)
RECURSIVE InsertByScore(_, _)
InsertByScore(sorted, sp) ==
    IF sorted = <<>> THEN <<sp>>
    ELSE IF Head(sorted).score >= sp.score
         THEN <<Head(sorted)>> \o InsertByScore(Tail(sorted), sp)
         ELSE <<sp>> \o sorted

RECURSIVE SortFrom(_, _, _)
SortFrom(s, i, sorted) ==
    IF i > Len(s) THEN sorted
    ELSE SortFrom(s, i + 1, InsertByScore(sorted, s[i]))

(* Mutant: from the second run on, entries of equal score come out in the
   opposite order *)
sort_by_score_desc_OrderByRun(s) ==
    SortFrom(IF out.status = "ok" THEN [i \in 1..Len(s) |-> s[Len(s) + 1 - i]] ELSE s,
             1, <<>>)

sort_by_score_desc(s) == SortFrom(s, 1, <<>>)

(* Mutant: one entry more than count is printed *)
PrintedPerms_OneMore(sorted, count, medium) ==
    LET shown == Take(sorted, count + 1)
    IN  [k \in 1..Len(shown) |->
            [score |-> shown[k].score,
             tl |-> shown[k].tl,
             emit |-> shown[k].emit,
             sides |-> split_tracklist_by_side(shown[k].tl, medium)]]

(* scored_perms.into_iter().take(count): what is printed for each of the
   first count entries, with the sides of split_tracklist_by_side *)
PrintedPerms(sorted, count, medium) ==
    LET shown == Take(sorted, count)
    IN  [k \in 1..Len(shown) |->
            [score |-> shown[k].score,
             tl |-> shown[k].tl,
             emit |-> shown[k].emit,
             sides |-> split_tracklist_by_side(shown[k].tl, medium)]]

NoOutput == [status |-> "none", results |-> <<>>, scored |-> <<>>]

(* Mutant: a stored constraint naming a title that the tracklist lacks ends
   the command with an error *)
handle_propose_AbsentTitleFails(c, tracklist_name, medium_name, count, min_score) ==
    LET t == FindByName(c.tracklists, tracklist_name)
        m == FindByName(c.mediums, medium_name)
    IN  IF t = 0
        THEN [NoOutput EXCEPT !.status = "tracklist not found"]
        ELSE IF m = 0
        THEN [NoOutput EXCEPT !.status = "medium not found"]
        ELSE LET tracklist == TracklistFromSer(c.tracklists[t].tracks)
                 medium == to_album_medium(c.mediums[m])
                 constraints == [i \in 1..Len(c.constraints) |->
                                    AlbumConstraintFromSer(c.constraints[i])]
                 titles == { tracklist[i].title : i \in 1..Len(tracklist) }
                 scored == ScoredPerms(tracklist, constraints, medium)
                 scored_perms ==
                    sort_by_score_desc(FilterPerms(scored, medium, min_score))
             IN  IF \E i \in 1..Len(constraints) :
                       \/ constraints[i].kind.t1 \notin titles
                       \/ /\ constraints[i].kind.tag # "AtPosition"
                          /\ constraints[i].kind.t2 \notin titles
                 THEN [NoOutput EXCEPT !.status = "title not found"]
                 ELSE [status |-> "ok",
                       results |-> PrintedPerms(scored_perms, count, medium),
                       scored |-> [e \in 1..Len(scored) |-> scored[e].perm]]

handle_propose(c, tracklist_name, medium_name, count, min_score) ==
    LET t == FindByName(c.tracklists, tracklist_name)
        m == FindByName(c.mediums, medium_name)
    IN  IF t = 0
        THEN [NoOutput EXCEPT !.status = "tracklist not found"]
        ELSE IF m = 0
        THEN [NoOutput EXCEPT !.status = "medium not found"]
        ELSE LET tracklist == TracklistFromSer(c.tracklists[t].tracks)
                 medium == to_album_medium(c.mediums[m])
                 constraints == [i \in 1..Len(c.constraints) |->
                                    AlbumConstraintFromSer(c.constraints[i])]
                 scored == ScoredPerms(tracklist, constraints, medium)
                 scored_perms ==
                    sort_by_score_desc(FilterPerms(scored, medium, min_score))
             IN  [status |-> "ok",
                  results |-> PrintedPerms(scored_perms, count, medium),
                  scored |-> [e \in 1..Len(scored) |-> scored[e].perm]]

-----------------------------------------------------------------------------
(* The propose command on a stored context *)

(* The stored tracklists tried: every choice of up to MaxTracks tracks of the
   pool, a track possibly more than once, stored in the order of the titles;
   propose tries every ordering of them whatever the stored order *)
TitleRank(title) == CASE title = "A" -> 1 [] title = "B" -> 2 [] OTHER -> 3

StoredTracklists ==
    { tracks \in SeqsUpTo(TrackPool, MaxTracks) :
        \A i \in 1..(Len(tracks) - 1) :
            TitleRank(tracks[i].title) <= TitleRank(tracks[i + 1].title) }

Contexts ==
    { [tracklists |-> <<[name |-> "lp", tracks |-> tracks]>>,
       mediums |-> <<[name |-> "vinyl", sides |-> sides,
                      max_duration_per_side |-> capacity]>>,
       constraints |-> constraints] :
         tracks \in StoredTracklists,
         sides \in 1..MaxSides,
         capacity \in Capacities,
         constraints \in ConstraintLists }

NoCommand ==
    [name |-> "none", tracklist |-> "", medium |-> "", count |-> 0, min_score |-> None]

(* The context files: the default path and one given with --context *)
DEFAULT_CONTEXT_PATH == "context.json"

Paths == {DEFAULT_CONTEXT_PATH, "album.json"}

NoFile == [exists |-> FALSE]

FileOf(c) == [exists |-> TRUE, data |-> c]

(* The context c is what the file at the default path holds, nothing else
   is on disk *)
StoredAtDefault(c) ==
    [p \in Paths |-> IF p = DEFAULT_CONTEXT_PATH THEN FileOf(c) ELSE NoFile]

Init ==
    /\ ctx \in Contexts
    /\ cmd = NoCommand
    /\ out = NoOutput
    /\ files = StoredAtDefault(ctx)

Propose(tracklist_name, medium_name, count, min_score) ==
    /\ cmd.name = "none"
    /\ cmd' = [name |-> "propose", tracklist |-> tracklist_name,
               medium |-> medium_name, count |-> count, min_score |-> min_score]
    /\ out' = handle_propose(ctx, tracklist_name, medium_name, count, min_score)
    /\ UNCHANGED <<ctx, files>>

(* The invocations tried: the stored names in another case, with every count
   and threshold (a threshold only where something is asked for), and one
   invocation for each name that is not stored *)
ProposeInputs ==
    { i \in [tracklist : {"LP"}, medium : {"Vinyl"}, count : 0..MaxCount,
              min_score : MinScores] : i.min_score.some => i.count >= 1 }
    \cup { [tracklist |-> "ep", medium |-> "vinyl", count |-> 1, min_score |-> None],
           [tracklist |-> "lp", medium |-> "tape", count |-> 1, min_score |-> None] }

Next ==
    \E i \in ProposeInputs : Propose(i.tracklist, i.medium, i.count, i.min_score)

Spec == Init /\ [][Next]_vars

-----------------------------------------------------------------------------
(* What the claims speak of *)

StoredTracklist == TracklistFromSer(ctx.tracklists[1].tracks)

StoredMedium == to_album_medium(ctx.mediums[1])

StoredConstraints ==
    [i \in 1..Len(ctx.constraints) |-> AlbumConstraintFromSer(ctx.constraints[i])]

Proposed == cmd.name = "propose" /\ out.status = "ok"

(* Every emitted ordering with its score, and those among them that the
   greedy rule fits on the medium and that reach the threshold of the command *)
Emitted == ScoredPerms(StoredTracklist, StoredConstraints, StoredMedium)

MeetsThreshold(score) == cmd.min_score.some => score >= cmd.min_score.value

Survivors ==
    LET em == Emitted
    IN  { e \in 1..Len(em) :
            /\ Allocate(em[e].tl, StoredMedium).feasible
            /\ MeetsThreshold(em[e].score) }

Returned == { out.results[k].emit : k \in 1..Len(out.results) }

Min(a, b) == IF a < b THEN a ELSE b

(* A partition of tl into at most medium.sides sides, none over capacity *)
PartitionFits(sides, tl, medium) ==
    /\ Len(sides) <= medium.sides
    /\ Flatten(sides) = tl
    /\ \A k \in 1..Len(sides) :
          SumSeq(Durations(sides[k])) <= medium.max_duration_per_side

-----------------------------------------------------------------------------
(* C1: every ordering that propose returns is feasible for the medium under
   the greedy rule: the allocator marks it feasible, and its printed sides
   number at most medium.sides, hold every track in order and stay within the
   capacity; an infeasible ordering is never returned, whatever its score. *)
C1_ReturnedOrderingsFeasible ==
    Proposed =>
        \A k \in 1..Len(out.results) :
            /\ Allocate(out.results[k].tl, StoredMedium).feasible
            /\ PartitionFits(out.results[k].sides, out.results[k].tl, StoredMedium)

(* C1 witness: some ordering is returned while an infeasible ordering scores
   strictly more than every returned one. *)
C1_Witness ==
    /\ Proposed
    /\ Len(out.results) >= 1
    /\ \E e \in 1..Len(Emitted) :
          /\ ~Allocate(Emitted[e].tl, StoredMedium).feasible
          /\ \A k \in 1..Len(out.results) : Emitted[e].score > out.results[k].score

(* C2: with a minimum score supplied, every returned result scores at least
   that minimum, also when fewer than count orderings reach it. *)
C2_ThresholdRespected ==
    (Proposed /\ cmd.min_score.some) =>
        \A k \in 1..Len(out.results) : out.results[k].score >= cmd.min_score.value

(* C2 witness: a threshold leaves fewer results than count, and a feasible
   ordering below the threshold was left out. *)
C2_Witness ==
    /\ Proposed
    /\ cmd.min_score.some
    /\ Len(out.results) >= 1
    /\ Len(out.results) < cmd.count
    /\ \E e \in 1..Len(Emitted) :
          /\ Allocate(Emitted[e].tl, StoredMedium).feasible
          /\ Emitted[e].score < cmd.min_score.value

(* C3: the results are sorted by score descending, and results of equal score
   keep the order in which the Permutation Engine emitted them. *)
C3_SortedStable ==
    Proposed =>
        \A i, j \in 1..Len(out.results) :
            i < j =>
                /\ out.results[i].score >= out.results[j].score
                /\ (out.results[i].score = out.results[j].score
                      => out.results[i].emit < out.results[j].emit)

(* C3 witness: two results tie, and an ordering emitted before the first of
   them survives with a lower score, so the sort moved it behind. *)
C3_Witness ==
    /\ Proposed
    /\ Len(out.results) >= 2
    /\ out.results[1].score = out.results[2].score
    /\ \E e \in Survivors :
          /\ e < out.results[1].emit
          /\ Emitted[e].score < out.results[1].score

(* C4: propose returns exactly min(count, S) results, S the number of feasible
   orderings that meet the threshold; they are among those survivors, each
   once, and no survivor left out scores more than a returned one; count 0
   returns nothing. *)
C4_FirstKOfSurvivors ==
    Proposed =>
        LET em == Emitted
            survivors == { e \in 1..Len(em) :
                             /\ Allocate(em[e].tl, StoredMedium).feasible
                             /\ MeetsThreshold(em[e].score) }
        IN  /\ Len(out.results) = Min(cmd.count, Cardinality(survivors))
            /\ Returned \subseteq survivors
            /\ Cardinality(Returned) = Len(out.results)
            /\ \A k \in 1..Len(out.results) :
                  /\ out.results[k].tl = em[out.results[k].emit].tl
                  /\ out.results[k].score = em[out.results[k].emit].score
            /\ \A e \in survivors \ Returned :
                  \A k \in 1..Len(out.results) : em[e].score <= out.results[k].score
            /\ (cmd.count = 0 => out.results = <<>>)

(* C4 witness: more orderings survive than count asks for, and one left out
   scores less than the last one returned. *)
C4_Witness ==
    /\ Proposed
    /\ cmd.count >= 1
    /\ Cardinality(Survivors) > cmd.count
    /\ \E e \in Survivors \ Returned :
          Emitted[e].score < out.results[Len(out.results)].score

(* C5: for a tracklist of N tracks, the orderings that propose is handed by
   the Permutation Engine are the N! orderings of the N positions, each exactly
   once; one empty ordering when N = 0, one ordering when N = 1. *)
C5_EveryOrderingOnce ==
    Proposed =>
        LET n == Len(StoredTracklist)
        IN  /\ Len(out.scored) = Factorial(n)
            /\ \A e \in 1..Len(out.scored) :
                  /\ Len(out.scored[e]) = n
                  /\ \A i \in 1..n : out.scored[e][i] \in 1..n
                  /\ \A i, j \in 1..n : out.scored[e][i] = out.scored[e][j] => i = j
            /\ Cardinality({ out.scored[e] : e \in 1..Len(out.scored) }) = Len(out.scored)
            /\ (n = 0 => out.scored = << <<>> >>)
            /\ (n = 1 => out.scored = << <<1>> >>)

(* C5 witness: a tracklist of the greatest length, holding the same track in
   two positions, has been enumerated. *)
C5_Witness ==
    /\ Proposed
    /\ Len(StoredTracklist) = MaxTracks
    /\ \E i, j \in 1..Len(StoredTracklist) : i # j /\ StoredTracklist[i] = StoredTracklist[j]
    /\ Len(out.scored) = Factorial(MaxTracks)

-----------------------------------------------------------------------------
(* split_tracklist_by_side on its own, on every stored tracklist and medium *)

SplitSides ==
    /\ cmd.name = "none"
    /\ cmd' = [NoCommand EXCEPT !.name = "split"]
    /\ out' = [status |-> "split",
               results |-> << [score |-> 0,
                               tl |-> StoredTracklist,
                               emit |-> 0,
                               sides |-> split_tracklist_by_side(StoredTracklist,
                                                                 StoredMedium)] >>,
               scored |-> <<>>]
    /\ UNCHANGED <<ctx, files>>

InitSplit ==
    /\ ctx \in { c \in Contexts : c.constraints = <<>> }
    /\ cmd = NoCommand
    /\ out = NoOutput
    /\ files = StoredAtDefault(ctx)

SpecSplit == InitSplit /\ [][SplitSides]_vars

SplitDone == cmd.name = "split" /\ out.status = "split"

SplitResult == out.results[1].sides

(* The partition the greedy rule prescribes, stated on the partition itself:
   no side is empty or over capacity, the sides in order give back the
   ordering, and the first track of every later side did not fit the side
   before it *)
GreedyPartition(sides, tl, medium) ==
    /\ Flatten(sides) = tl
    /\ \A k \in 1..Len(sides) :
          /\ sides[k] # <<>>
          /\ SumSeq(Durations(sides[k])) <= medium.max_duration_per_side
    /\ \A k \in 2..Len(sides) :
          SumSeq(Durations(sides[k - 1])) + sides[k][1].duration
              > medium.max_duration_per_side

(* C6: for an ordering the greedy rule marks feasible, split_tracklist_by_side
   returns the partition the rule prescribes: a track joins the current side
   when it fits and otherwise opens the next one, and the sides in order give
   back the ordering, every track once and in place. *)
C6_SplitIsGreedy ==
    (SplitDone /\ Allocate(StoredTracklist, StoredMedium).feasible) =>
        /\ GreedyPartition(SplitResult, StoredTracklist, StoredMedium)
        /\ SplitResult = Allocate(StoredTracklist, StoredMedium).sides
        /\ Len(SplitResult) <= StoredMedium.sides

(* C6 witness: a feasible ordering split into two sides, one of them holding
   two tracks that fill it exactly. *)
C6_Witness ==
    /\ SplitDone
    /\ Allocate(StoredTracklist, StoredMedium).feasible
    /\ Len(SplitResult) = 2
    /\ \E k \in 1..2 :
          /\ Len(SplitResult[k]) = 2
          /\ SumSeq(Durations(SplitResult[k])) = StoredMedium.max_duration_per_side

(* C7: the partition of split_tracklist_by_side has at most medium.sides
   sides, for every ordering and every medium. *)
C7_AtMostMediumSides ==
    SplitDone => Len(SplitResult) <= StoredMedium.sides

-----------------------------------------------------------------------------
(* C8: when one track alone is longer than a side, every ordering of the
   tracklist is infeasible, wherever the track stands, and propose ends
   normally with an empty result list. *)
C8_OversizedTrackEmptyResult ==
    (Proposed /\ \E i \in 1..Len(StoredTracklist) :
                    StoredTracklist[i].duration > StoredMedium.max_duration_per_side) =>
        /\ out.results = <<>>
        /\ LET em == Emitted
           IN  \A e \in 1..Len(em) : ~Allocate(em[e].tl, StoredMedium).feasible

(* C8 witness: propose was asked for results on a tracklist of several tracks
   whose last track alone is longer than a side, the others fitting the
   medium by themselves. *)
C8_Witness ==
    /\ Proposed
    /\ cmd.count >= 1
    /\ ~cmd.min_score.some
    /\ Len(StoredTracklist) >= 2
    /\ StoredTracklist[Len(StoredTracklist)].duration > StoredMedium.max_duration_per_side
    /\ Allocate(SubSeq(StoredTracklist, 1, Len(StoredTracklist) - 1), StoredMedium).feasible
    /\ out.results = <<>>

-----------------------------------------------------------------------------
(* The score as the claims state it, read off a printed result r: its ordering
   r.tl and its printed sides r.sides.  With selfCompare, a constraint on two
   equal titles is judged like any other; without, it is never satisfied. *)
TitleOnSide(side, title) == \E i \in 1..Len(side) : side[i].title = title

StatedSatisfied(kind, r, selfCompare) ==
    CASE kind.tag = "AtPosition" ->
            /\ kind.pos < Len(r.tl)
            /\ r.tl[kind.pos + 1].title = kind.t1
      [] kind.tag = "Adjacent" ->
            /\ (selfCompare \/ kind.t1 # kind.t2)
            /\ \E i, j \in 1..Len(r.tl) :
                  /\ r.tl[i].title = kind.t1
                  /\ r.tl[j].title = kind.t2
                  /\ (i = j + 1 \/ j = i + 1)
      [] kind.tag = "OnSameSide" ->
            /\ (selfCompare \/ kind.t1 # kind.t2)
            /\ \E k \in 1..Len(r.sides) :
                  TitleOnSide(r.sides[k], kind.t1) /\ TitleOnSide(r.sides[k], kind.t2)

RECURSIVE StatedScore(_, _, _)
StatedScore(r, i, selfCompare) ==
    IF i > Len(ctx.constraints) THEN 0
    ELSE (IF StatedSatisfied(ctx.constraints[i].kind, r, selfCompare)
          THEN ctx.constraints[i].weight ELSE 0)
         + StatedScore(r, i + 1, selfCompare)

(* C9 as stated: the score of a returned ordering is the sum of the weights of
   the stored constraints satisfied, AtPosition by the title at that index,
   Adjacent by the two titles at neighbouring indices, OnSameSide by the two
   titles on one printed side. *)
C9_ScoreAsStated ==
    Proposed =>
        \A k \in 1..Len(out.results) :
            out.results[k].score = StatedScore(out.results[k], 1, TRUE)

(* C9 amended: the same, where Adjacent and OnSameSide are satisfied only by
   two different titles; a constraint that compares a title with itself adds
   nothing. *)
C9_ScoreSumOfSatisfied ==
    Proposed =>
        \A k \in 1..Len(out.results) :
            out.results[k].score = StatedScore(out.results[k], 1, FALSE)

(* C9 witness: a returned ordering satisfies one of two stored constraints, an
   OnSameSide on two different titles, and not the other. *)
C9_Witness ==
    /\ Proposed
    /\ Len(ctx.constraints) = 2
    /\ \E k \in 1..Len(out.results) :
          \E i, j \in 1..2 :
              /\ i # j
              /\ ctx.constraints[i].kind.tag = "OnSameSide"
              /\ ctx.constraints[i].kind.t1 # ctx.constraints[i].kind.t2
              /\ StatedSatisfied(ctx.constraints[i].kind, out.results[k], FALSE)
              /\ ~StatedSatisfied(ctx.constraints[j].kind, out.results[k], FALSE)
              /\ out.results[k].score = ctx.constraints[i].weight

-----------------------------------------------------------------------------
StoredTitles == { StoredTracklist[i].title : i \in 1..Len(StoredTracklist) }

NamesAbsentTitle(c) ==
    \/ c.kind.t1 \notin StoredTitles
    \/ (c.kind.tag # "AtPosition" /\ c.kind.t2 \notin StoredTitles)

(* C10: a stored constraint that names a title absent from the tracklist adds
   nothing to the score of any ordering and raises no error: propose with it
   ends as propose without it ends, normally, with the same orderings, scores
   and sides. *)
C10_AbsentTitleNoEffect ==
    (cmd.name = "propose" /\ FindByName(ctx.tracklists, cmd.tracklist) # 0
                         /\ FindByName(ctx.mediums, cmd.medium) # 0) =>
        \A i \in 1..Len(ctx.constraints) :
            NamesAbsentTitle(ctx.constraints[i]) =>
                LET without == [ctx EXCEPT !.constraints = RemoveAt(@, i)]
                    other == handle_propose(without, cmd.tracklist, cmd.medium,
                                            cmd.count, cmd.min_score)
                    rest == [j \in 1..Len(without.constraints) |->
                                AlbumConstraintFromSer(without.constraints[j])]
                IN  /\ other.status = "ok"
                    /\ out.status = "ok"
                    /\ other.results = out.results
                    /\ Len(out.scored) = Len(other.scored)
                    /\ \A e \in 1..Len(out.scored) :
                          LET tl == [p \in 1..Len(out.scored[e]) |->
                                        StoredTracklist[out.scored[e][p]]]
                          IN  score_tracklist(tl, StoredConstraints, StoredMedium)
                                = score_tracklist(tl, rest, StoredMedium)

(* C10 witness: of two stored constraints one names an absent title, the
   other is satisfied by the first result, returned under a threshold. *)
C10_Witness ==
    /\ Proposed
    /\ cmd.min_score.some
    /\ Len(ctx.constraints) = 2
    /\ Len(out.results) >= 1
    /\ \E i, j \in 1..2 :
          /\ i # j
          /\ NamesAbsentTitle(ctx.constraints[i])
          /\ ~NamesAbsentTitle(ctx.constraints[j])
          /\ out.results[1].score = ctx.constraints[j].weight

-----------------------------------------------------------------------------
(* propose asked for the greatest count, with and without a threshold, and
   then run a second time with the same arguments on the same context *)

ProposeRun ==
    \E min_score \in MinScores : Propose("LP", "Vinyl", MaxCount, min_score)

ProposeAgain ==
    /\ cmd.name = "propose"
    /\ cmd' = [cmd EXCEPT !.name = "propose again"]
    /\ out' = handle_propose(ctx, cmd.tracklist, cmd.medium, cmd.count, cmd.min_score)
    /\ UNCHANGED <<ctx, files>>

NextRank == ProposeRun \/ ProposeAgain

SpecRank == Init /\ [][NextRank]_vars

(* The ordering that the e-th emitted index permutation stands for *)
OrderingOf(perm) == [p \in 1..Len(perm) |-> StoredTracklist[perm[p]]]

(* The stored constraints but the i-th, as the library's *)
ConstraintsWithout(i) ==
    LET rest == RemoveAt(ctx.constraints, i)
    IN  [j \in 1..Len(rest) |-> AlbumConstraintFromSer(rest[j])]

ComparesWithItself(c) == c.kind.tag # "AtPosition" /\ c.kind.t1 = c.kind.t2

(* C11: a stored constraint Adjacent(a, a) or OnSameSide(a, a) adds nothing
   to the score of any ordering, whether or not the track a is in it: every
   ordering scores the same with the constraint as without it. *)
C11_SelfCompareContributesZero ==
    Proposed =>
        \A i \in 1..Len(ctx.constraints) :
            ComparesWithItself(ctx.constraints[i]) =>
                LET all == StoredConstraints
                    rest == ConstraintsWithout(i)
                IN  \A e \in 1..Len(out.scored) :
                        LET tl == OrderingOf(out.scored[e])
                        IN  score_tracklist(tl, all, StoredMedium)
                              = score_tracklist(tl, rest, StoredMedium)

(* C11 witness: Adjacent(A, A) and OnSameSide(A, A) are both stored, and an
   ordering holding A twice in a row is returned, every A on a side, with
   score 0. *)
C11_Witness ==
    /\ Proposed
    /\ Len(ctx.constraints) = 2
    /\ \A i \in 1..2 : ComparesWithItself(ctx.constraints[i])
    /\ \E k \in 1..Len(out.results) :
          /\ out.results[k].score = 0
          /\ \E p \in 1..(Len(out.results[k].tl) - 1) :
                /\ out.results[k].tl[p].title = "A"
                /\ out.results[k].tl[p + 1].title = "A"
          /\ \E j \in 1..Len(out.results[k].sides) :
                TitleOnSide(out.results[k].sides[j], "A")

-----------------------------------------------------------------------------
(* The worked scenario: tracks A(3), B(4), C(2) stored in that order, a medium
   of 2 sides of capacity 5, and the single constraint Adjacent(A, B) of
   weight 10 *)

TitlesOf(tl) == [i \in 1..Len(tl) |-> tl[i].title]

Scenario ==
    /\ TitlesOf(StoredTracklist) = <<"A", "B", "C">>
    /\ StoredMedium.sides = 2
    /\ StoredMedium.max_duration_per_side = 5
    /\ ctx.constraints = << [kind |-> Adjacent("A", "B"), weight |-> 10] >>

(* C12: in the scenario the six orderings score 10 where A and B are
   neighbours ([A,B,C], [B,A,C], [C,A,B], [C,B,A]) and 0 otherwise ([A,C,B],
   [B,C,A]); the allocator leaves [A,B,C] infeasible with sides [A] and [B]
   and C unplaced; and propose returns only orderings whose greedy packing
   fits in 2 sides, so neither [A,B,C] nor [C,B,A]. *)
C12_ScenarioScoresAndFeasibility ==
    (Proposed /\ Scenario) =>
        LET em == Emitted
            abc == Allocate(StoredTracklist, StoredMedium)
            neighbours == { <<"A", "B", "C">>, <<"B", "A", "C">>,
                            <<"C", "A", "B">>, <<"C", "B", "A">> }
            apart == { <<"A", "C", "B">>, <<"B", "C", "A">> }
            fitting == { <<"B", "A", "C">>, <<"C", "A", "B">>,
                         <<"A", "C", "B">>, <<"B", "C", "A">> }
        IN  /\ { TitlesOf(em[e].tl) : e \in 1..Len(em) } = neighbours \cup apart
            /\ \A e \in 1..Len(em) :
                  em[e].score = IF TitlesOf(em[e].tl) \in neighbours THEN 10 ELSE 0
            /\ ~abc.feasible
            /\ [k \in 1..Len(abc.sides) |-> TitlesOf(abc.sides[k])] = << <<"A">>, <<"B">> >>
            /\ \A k \in 1..Len(out.results) :
                  /\ TitlesOf(out.results[k].tl) \in fitting
                  /\ PartitionFits(out.results[k].sides, out.results[k].tl, StoredMedium)
                  /\ out.results[k].score
                       = IF TitlesOf(out.results[k].tl) \in neighbours THEN 10 ELSE 0
            /\ Len(out.results)
                 = Min(cmd.count, IF cmd.min_score.some THEN 2 ELSE 4)

(* C12 witness: the scenario, run without a threshold, returned the two
   fitting orderings that score 10. *)
C12_Witness ==
    /\ Proposed
    /\ Scenario
    /\ ~cmd.min_score.some
    /\ Len(out.results) = 2
    /\ { TitlesOf(out.results[k].tl) : k \in 1..2 }
         = { <<"B", "A", "C">>, <<"C", "A", "B">> }
    /\ \A k \in 1..2 : out.results[k].score = 10

-----------------------------------------------------------------------------
(* The one result of an empty tracklist: the empty ordering, first emitted,
   with score 0 and no side *)
EmptyResult == [score |-> 0, tl |-> <<>>, emit |-> 1, sides |-> <<>>]

(* C13 as stated: on an empty tracklist, with a count of 1 or more, propose
   returns exactly the empty ordering, with score 0 and no side, whatever the
   constraints and whatever the threshold. *)
C13_EmptyCollectionOneResult ==
    (Proposed /\ StoredTracklist = <<>> /\ cmd.count >= 1) =>
        out.results = <<EmptyResult>>

(* C13 amended: on an empty tracklist, with a count of 1 or more and no
   threshold above 0, propose returns exactly the empty ordering, with score 0
   and no side, whatever the constraints; with a threshold above 0 it returns
   nothing. *)
C13_EmptyCollectionOneResultUnlessThreshold ==
    (Proposed /\ StoredTracklist = <<>> /\ cmd.count >= 1) =>
        /\ Len(out.scored) = 1
        /\ IF cmd.min_score.some /\ cmd.min_score.value > 0
           THEN out.results = <<>>
           ELSE out.results = <<EmptyResult>>

(* C13 witness: an empty tracklist with two stored constraints, proposed
   without a threshold, gave one result. *)
C13_Witness ==
    /\ Proposed
    /\ StoredTracklist = <<>>
    /\ Len(ctx.constraints) = 2
    /\ cmd.count >= 1
    /\ ~cmd.min_score.some
    /\ Len(out.results) = 1
    /\ out.results[1].sides = <<>>

-----------------------------------------------------------------------------
(* C14: propose run a second time with the same arguments on the same context
   ends as the first run ended and returns the same list: the same orderings
   in the same order, with the same scores and the same sides. *)
C14_RerunIdentical ==
    [][cmd'.name = "propose again" =>
          /\ out'.status = out.status
          /\ out'.results = out.results]_vars

(* C14 witness: a second run has returned two orderings of equal score, each
   with its sides. *)
C14_Witness ==
    /\ cmd.name = "propose again"
    /\ out.status = "ok"
    /\ Len(out.results) >= 2
    /\ out.results[1].score = out.results[2].score
    /\ out.results[1].tl # out.results[2].tl
    /\ Len(out.results[1].sides) >= 2

-----------------------------------------------------------------------------
(* C15: a constraint of weight w added to a constraint set never lowers the
   score of an ordering: every ordering that satisfies it scores exactly w
   more than under the set without it, every other ordering scores the same. *)
C15_AddedConstraintAddsItsWeight ==
    Proposed =>
        LET em == Emitted
        IN  \A i \in 1..Len(ctx.constraints) :
                LET before == ScoredPerms(StoredTracklist, ConstraintsWithout(i),
                                          StoredMedium)
                    added == ctx.constraints[i]
                IN  \A e \in 1..Len(em) :
                        /\ em[e].score >= before[e].score
                        /\ em[e].score - before[e].score
                             = IF is_satisfied(added.kind, em[e].tl, StoredMedium)
                               THEN added.weight ELSE 0

(* C15 witness: of two stored constraints, one returned ordering satisfies
   both and scores the two weights, another satisfies only one of them and
   scores that one's weight. *)
C15_Witness ==
    /\ Proposed
    /\ Len(ctx.constraints) = 2
    /\ \E i, j \in 1..2 : \E k, l \in 1..Len(out.results) :
          /\ i # j
          /\ is_satisfied(ctx.constraints[i].kind, out.results[k].tl, StoredMedium)
          /\ is_satisfied(ctx.constraints[j].kind, out.results[k].tl, StoredMedium)
          /\ ~is_satisfied(ctx.constraints[i].kind, out.results[l].tl, StoredMedium)
          /\ is_satisfied(ctx.constraints[j].kind, out.results[l].tl, StoredMedium)
          /\ out.results[k].score = ctx.constraints[i].weight + ctx.constraints[j].weight
          /\ out.results[l].score = ctx.constraints[j].weight

-----------------------------------------------------------------------------
(* The commands that change the stored tracklists and mediums *)

EmptyContext == [tracklists |-> <<>>, mediums |-> <<>>, constraints |-> <<>>]

SerTrackFrom(track) == [title |-> track.title, duration |-> track.duration]

(* Mutant: an entry of the same name in another case is not found, and the
   new one is appended *)
add_or_replace_tracklist_ExactName(c, name, tracks) ==
    LET new_list == [name |-> name,
                     tracks |-> [i \in 1..Len(tracks) |-> SerTrackFrom(tracks[i])]]
    IN  IF \E k \in 1..Len(c.tracklists) : c.tracklists[k].name = name
        THEN [ctx |-> [c EXCEPT !.tracklists[CHOOSE k \in 1..Len(c.tracklists) :
                                               c.tracklists[k].name = name] = new_list],
              printed |-> "Replaced tracklist"]
        ELSE [ctx |-> [c EXCEPT !.tracklists = Append(@, new_list)],
              printed |-> "Added tracklist"]

(* ProgramContext::add_or_replace_tracklist: the context after the call and
   the line it prints *)
add_or_replace_tracklist(c, name, tracks) ==
    LET new_list == [name |-> name,
                     tracks |-> [i \in 1..Len(tracks) |-> SerTrackFrom(tracks[i])]]
        existing == FindByName(c.tracklists, name)
    IN  IF existing # 0
        THEN [ctx |-> [c EXCEPT !.tracklists[existing] = new_list],
              printed |-> "Replaced tracklist"]
        ELSE [ctx |-> [c EXCEPT !.tracklists = Append(@, new_list)],
              printed |-> "Added tracklist"]

(* ProgramContext::add_or_replace_medium *)
add_or_replace_medium(c, name, sides, max_duration_per_side) ==
    LET new_medium == [name |-> name, sides |-> sides,
                       max_duration_per_side |-> max_duration_per_side]
        existing == FindByName(c.mediums, name)
    IN  IF existing # 0
        THEN [ctx |-> [c EXCEPT !.mediums[existing] = new_medium],
              printed |-> "Replaced medium"]
        ELSE [ctx |-> [c EXCEPT !.mediums = Append(@, new_medium)],
              printed |-> "Added medium"]

(* parse_duration on the strings tried: MM:SS with two unsigned numbers, or
   else a decimal number of minutes, which may be zero or negative; anything
   else is no duration *)
parse_duration(s) ==
    CASE s = "2:00" -> Some(2)
      [] s = "5" -> Some(5)
      [] s = "0" -> Some(0)
      [] s = "-1" -> Some(0 - 1)
      [] OTHER -> None

(* ProgramContext::load_or_create on a path where the file exists, and save *)
LoadExisting(path) == files[path].data

Saved(path, c) == [files EXCEPT ![path] = FileOf(c)]

(* add-tracklist: load, add or replace, save *)
AddTracklist(name, tracks) ==
    LET loaded == LoadExisting(DEFAULT_CONTEXT_PATH)
        done == add_or_replace_tracklist(loaded, name, tracks)
    IN  /\ cmd' = [name |-> "add-tracklist", entry |-> name, tracks |-> tracks]
        /\ ctx' = done.ctx
        /\ out' = [status |-> done.printed]
        /\ files' = Saved(DEFAULT_CONTEXT_PATH, done.ctx)

(* add-medium: load, parse the duration, add or replace and save; with a
   duration that does not parse, report it and save nothing *)
AddMedium(name, sides, max_duration) ==
    LET loaded == LoadExisting(DEFAULT_CONTEXT_PATH)
        duration == parse_duration(max_duration)
        done == add_or_replace_medium(loaded, name, sides, duration.value)
    IN  /\ cmd' = [name |-> "add-medium", entry |-> name, sides |-> sides,
                   max_duration |-> max_duration]
        /\ IF duration.some
           THEN /\ ctx' = done.ctx
                /\ out' = [status |-> done.printed]
                /\ files' = Saved(DEFAULT_CONTEXT_PATH, done.ctx)
           ELSE /\ ctx' = loaded
                /\ out' = [status |-> "Invalid duration format"]
                /\ UNCHANGED files

TracklistNames == {"lp", "LP", "ep"}

TracklistInputs ==
    { << [title |-> "A", duration |-> 3] >>,
      << [title |-> "B", duration |-> 4], [title |-> "C", duration |-> 2] >> }

MediumNames == {"vinyl", "Vinyl", "cd"}

(* The sides and --max-duration strings tried together *)
MediumInputs ==
    { [sides |-> 2, max_duration |-> "5"],
      [sides |-> 1, max_duration |-> "2:00"],
      [sides |-> 0, max_duration |-> "5"],
      [sides |-> 1, max_duration |-> "0"],
      [sides |-> 1, max_duration |-> "-1"],
      [sides |-> 2, max_duration |-> "long"] }

InitStore ==
    /\ ctx = EmptyContext
    /\ cmd = NoCommand
    /\ out = NoOutput
    /\ files = StoredAtDefault(EmptyContext)

NextStore ==
    \/ \E name \in TracklistNames, tracks \in TracklistInputs : AddTracklist(name, tracks)
    \/ \E name \in MediumNames, m \in MediumInputs :
          AddMedium(name, m.sides, m.max_duration)

SpecStore == InitStore /\ [][NextStore]_vars

(* C16: every stored medium, and so every medium that propose hands to the
   library, has at least one side and a capacity above 0. *)
C16_StoredMediumsPositive ==
    \A m \in 1..Len(ctx.mediums) :
        /\ to_album_medium(ctx.mediums[m]).sides >= 1
        /\ to_album_medium(ctx.mediums[m]).max_duration_per_side > 0

-----------------------------------------------------------------------------
(* No two entries of a list have names equal ignoring ASCII case *)
NamesDistinct(list) ==
    \A i, j \in 1..Len(list) :
        i # j => ~eq_ignore_ascii_case(list[i].name, list[j].name)

(* after is before with new put in the place of the entry of the same name
   ignoring case, all other entries as they were, or appended when there is
   no such entry *)
ReplacedOrAppended(before, after, new) ==
    IF \E k \in 1..Len(before) : eq_ignore_ascii_case(before[k].name, new.name)
    THEN /\ Len(after) = Len(before)
         /\ \A k \in 1..Len(before) :
               after[k] = IF eq_ignore_ascii_case(before[k].name, new.name)
                          THEN new ELSE before[k]
    ELSE after = Append(before, new)

AddTracklistEffect ==
    cmd'.name = "add-tracklist" =>
        /\ ReplacedOrAppended(ctx.tracklists, ctx'.tracklists,
                              [name |-> cmd'.entry, tracks |-> cmd'.tracks])
        /\ ctx'.mediums = ctx.mediums

AddMediumEffect ==
    (cmd'.name = "add-medium" /\ parse_duration(cmd'.max_duration).some) =>
        /\ ReplacedOrAppended(ctx.mediums, ctx'.mediums,
                              [name |-> cmd'.entry, sides |-> cmd'.sides,
                               max_duration_per_side |->
                                   parse_duration(cmd'.max_duration).value])
        /\ ctx'.tracklists = ctx.tracklists

(* C18: after any sequence of add-tracklist and add-medium commands from an
   empty context no two tracklists and no two mediums have names equal
   ignoring ASCII case; each command either replaces the entry of that name
   in place, the list as long as before, or appends one entry under a new
   name. *)
C18_NamesUniqueReplaceInPlace ==
    /\ [](NamesDistinct(ctx.tracklists) /\ NamesDistinct(ctx.mediums))
    /\ [][AddTracklistEffect /\ AddMediumEffect]_vars

(* C18 witness: the first of two stored tracklists has just been replaced
   under its name in another case, and two mediums are stored, the first of
   them under a name replaced in another case as well. *)
C18_Witness ==
    /\ cmd.name = "add-tracklist"
    /\ out.status = "Replaced tracklist"
    /\ Len(ctx.tracklists) = 2
    /\ ctx.tracklists[1].name = "LP"
    /\ ctx.tracklists[1].tracks = cmd.tracks
    /\ Len(ctx.mediums) = 2
    /\ ctx.mediums[1].name = "Vinyl"
    /\ files[DEFAULT_CONTEXT_PATH].data = ctx

-----------------------------------------------------------------------------
(* ProgramContext::load_or_create of context.rs on a path without a file,
   step by step.  Its else branch calls Self::default(), and Default for
   ProgramContext calls load_or_create("context.json") in turn; the call
   stack is kept in cmd.stack and is cut off at MaxStack frames, where the
   process dies of stack overflow. *)

MaxStack == 4

Frame(path, pc) == [path |-> path, pc |-> pc]

Top(stack) == stack[Len(stack)]

Pop(stack) == SubSeq(stack, 1, Len(stack) - 1)

Loading == cmd.name = "load_or_create" /\ out.status = "running" /\ cmd.stack # <<>>

(* What is on disk before the call: at each path no file, or a context *)
LoadContexts == {EmptyContext} \cup { c \in Contexts : c.constraints = <<>> }

InitLoad ==
    /\ ctx = EmptyContext
    /\ cmd = NoCommand
    /\ out = NoOutput
    /\ files \in [Paths -> {NoFile} \cup { FileOf(c) : c \in LoadContexts }]
    /\ files["album.json"] \in {NoFile, FileOf(EmptyContext)}

(* load_or_create(path) is called where no file exists at path *)
LoadOrCreateCall(path) ==
    /\ cmd.name = "none"
    /\ ~files[path].exists
    /\ cmd' = [name |-> "load_or_create", path |-> path,
               stack |-> <<Frame(path, "entry")>>]
    /\ out' = [status |-> "running"]
    /\ UNCHANGED <<ctx, files>>

(* The frame on top tests path.exists(): it reads the file and returns its
   context, or it calls Self::default(), that is load_or_create("context.json") *)
LoadOrCreateEnter ==
    /\ Loading
    /\ Top(cmd.stack).pc = "entry"
    /\ IF files[Top(cmd.stack).path].exists
       THEN /\ ctx' = files[Top(cmd.stack).path].data
            /\ cmd' = [cmd EXCEPT !.stack = Pop(@)]
            /\ out' = [status |-> IF Len(cmd.stack) = 1 THEN "returned" ELSE "running"]
            /\ UNCHANGED files
       ELSE IF Len(cmd.stack) >= MaxStack
       THEN /\ out' = [status |-> "stack overflow"]
            /\ UNCHANGED <<ctx, cmd, files>>
       ELSE /\ cmd' = [cmd EXCEPT !.stack =
                          Append(Pop(@), Frame(Top(@).path, "default"))
                              \o <<Frame(DEFAULT_CONTEXT_PATH, "entry")>>]
            /\ UNCHANGED <<ctx, out, files>>

(* Self::default() has returned into the frame on top: it saves the context
   at its path and returns it *)
LoadOrCreateSave ==
    /\ Loading
    /\ Top(cmd.stack).pc = "default"
    /\ files' = Saved(Top(cmd.stack).path, ctx)
    /\ cmd' = [cmd EXCEPT !.stack = Pop(@)]
    /\ out' = [status |-> IF Len(cmd.stack) = 1 THEN "returned" ELSE "running"]
    /\ UNCHANGED ctx

NextLoad ==
    \/ \E path \in Paths : LoadOrCreateCall(path)
    \/ LoadOrCreateEnter
    \/ LoadOrCreateSave

SpecLoad == InitLoad /\ [][NextLoad]_vars

(* C17: load_or_create(path) called where no file exists at path ends, and
   when it has ended it has returned a context with no tracklists, no mediums
   and no constraints and has saved that context at path, whether or not a
   file context.json exists. *)
C17_LoadOrCreateMakesEmptyContext ==
    /\ out.status # "stack overflow"
    /\ (cmd.name = "load_or_create" /\ out.status = "returned") =>
          /\ ctx = EmptyContext
          /\ files[cmd.path] = FileOf(EmptyContext)

-----------------------------------------------------------------------------
(* The commands that change the stored constraints *)

(* kind.to_lowercase() on the kind strings tried *)
to_lowercase(s) ==
    CASE s = "Adjacent" -> "adjacent"
      [] s = "OnSameSide" -> "onsameside"
      [] OTHER -> s

(* args[1].parse::<usize>() on the strings tried *)
parse_usize(s) ==
    CASE s = "0" -> Some(0)
      [] s = "1" -> Some(1)
      [] OTHER -> None

(* Mutant: a position that is no unsigned number is read as position 0 *)
parse_constraint_kind_DefaultPosition(kind, args) ==
    LET k == to_lowercase(kind)
    IN  CASE k = "atpos" ->
                IF Len(args) = 2
                THEN IF parse_usize(args[2]).some
                     THEN Some(AtPosition(args[1], parse_usize(args[2]).value))
                     ELSE Some(AtPosition(args[1], 0))
                ELSE None
          [] k = "adjacent" ->
                IF Len(args) = 2 THEN Some(Adjacent(args[1], args[2])) ELSE None
          [] k = "onsameside" ->
                IF Len(args) = 2 THEN Some(OnSameSide(args[1], args[2])) ELSE None
          [] OTHER -> None

(* parse_constraint_kind: the kind, or None with a message on stderr, for an
   unknown kind, a number of arguments other than 2 or a position that is no
   unsigned number *)
parse_constraint_kind(kind, args) ==
    LET k == to_lowercase(kind)
    IN  CASE k = "atpos" ->
                IF Len(args) = 2
                THEN IF parse_usize(args[2]).some
                     THEN Some(AtPosition(args[1], parse_usize(args[2]).value))
                     ELSE None
                ELSE None
          [] k = "adjacent" ->
                IF Len(args) = 2 THEN Some(Adjacent(args[1], args[2])) ELSE None
          [] k = "onsameside" ->
                IF Len(args) = 2 THEN Some(OnSameSide(args[1], args[2])) ELSE None
          [] OTHER -> None

(* impl From<&AlbumConstraint> for SerConstraint *)
SerConstraintFrom(c) ==
    LET kind == CASE c.kind.tag = "AtPosition" -> AtPosition(c.kind.t1, c.kind.pos)
                  [] c.kind.tag = "Adjacent" -> Adjacent(c.kind.t1, c.kind.t2)
                  [] c.kind.tag = "OnSameSide" -> OnSameSide(c.kind.t1, c.kind.t2)
    IN  [kind |-> kind, weight |-> c.weight]

(* The index of the first stored constraint of that kind and arguments, 0
   when there is none *)
FindByKind(list, kind) ==
    IF \E i \in 1..Len(list) : list[i].kind = kind
    THEN CHOOSE i \in 1..Len(list) :
            /\ list[i].kind = kind
            /\ \A j \in 1..(i - 1) : list[j].kind # kind
    ELSE 0

(* Mutant: the constraint is pushed whether or not its kind is stored *)
add_or_replace_constraint_AlwaysPush(c, constraint) ==
    [ctx |-> [c EXCEPT !.constraints = Append(@, SerConstraintFrom(constraint))],
     printed |-> "Added constraint"]

(* ProgramContext::add_or_replace_constraint *)
add_or_replace_constraint(c, constraint) ==
    LET ser_constraint == SerConstraintFrom(constraint)
        existing == FindByKind(c.constraints, ser_constraint.kind)
    IN  IF existing # 0
        THEN [ctx |-> [c EXCEPT !.constraints[existing] = SerConstraintFrom(constraint)],
              printed |-> "Replaced constraint"]
        ELSE [ctx |-> [c EXCEPT !.constraints = Append(@, SerConstraintFrom(constraint))],
              printed |-> "Added constraint"]

(* handle_add_constraint: the context after the call, what it returns and
   what is printed *)
handle_add_constraint(c, kind, args, weight) ==
    LET parsed == parse_constraint_kind(kind, args)
        done == add_or_replace_constraint(c, [kind |-> parsed.value, weight |-> weight])
    IN  IF parsed.some
        THEN [ctx |-> done.ctx, ok |-> TRUE, printed |-> done.printed]
        ELSE [ctx |-> c, ok |-> FALSE, printed |-> "Invalid constraint"]

(* Mutant: an index out of range removes the last constraint *)
handle_remove_constraint_ClampsIndex(c, index) ==
    IF c.constraints = <<>>
    THEN [ctx |-> c, ok |-> FALSE, printed |-> "Index out of range"]
    ELSE [ctx |-> [c EXCEPT !.constraints =
                      RemoveAt(@, IF index < Len(@) THEN index + 1 ELSE Len(@))],
          ok |-> TRUE, printed |-> "Removed constraint"]

(* handle_remove_constraint, index counted from 0 *)
handle_remove_constraint(c, index) ==
    IF index < Len(c.constraints)
    THEN [ctx |-> [c EXCEPT !.constraints = RemoveAt(@, index + 1)],
          ok |-> TRUE, printed |-> "Removed constraint"]
    ELSE [ctx |-> c, ok |-> FALSE, printed |-> "Index out of range"]

(* add-constraint: load, parse and add or replace, save when it parsed *)
AddConstraint(kind, args, weight) ==
    LET loaded == LoadExisting(DEFAULT_CONTEXT_PATH)
        done == handle_add_constraint(loaded, kind, args, weight)
    IN  /\ cmd' = [name |-> "add-constraint", kind |-> kind, args |-> args,
                   weight |-> weight]
        /\ ctx' = done.ctx
        /\ out' = [status |-> done.printed]
        /\ files' = IF done.ok THEN Saved(DEFAULT_CONTEXT_PATH, done.ctx) ELSE files

(* remove-constraint: load, remove and save, or report the index and return *)
RemoveConstraint(index) ==
    LET loaded == LoadExisting(DEFAULT_CONTEXT_PATH)
        done == handle_remove_constraint(loaded, index)
    IN  /\ cmd' = [name |-> "remove-constraint", index |-> index]
        /\ ctx' = done.ctx
        /\ out' = [status |-> done.printed]
        /\ files' = IF done.ok THEN Saved(DEFAULT_CONTEXT_PATH, done.ctx) ELSE files

(* The --kind and --args tried together: four that parse, to four different
   constraints, and three that do not *)
ConstraintInputs ==
    { [kind |-> "atpos", args |-> <<"A", "1">>],
      [kind |-> "Adjacent", args |-> <<"A", "B">>],
      [kind |-> "adjacent", args |-> <<"B", "A">>],
      [kind |-> "onsameside", args |-> <<"A", "A">>],
      [kind |-> "atpos", args |-> <<"A", "first">>],
      [kind |-> "adjacent", args |-> <<"A">>],
      [kind |-> "between", args |-> <<"A", "B">>] }

WeightInputs == {1, 2}

IndexInputs == 0..4

NextConstraints ==
    \/ \E i \in ConstraintInputs, weight \in WeightInputs :
          AddConstraint(i.kind, i.args, weight)
    \/ \E index \in IndexInputs : RemoveConstraint(index)

SpecConstraints == InitStore /\ [][NextConstraints]_vars

-----------------------------------------------------------------------------
(* No two stored constraints have the same kind with the same arguments *)
KindsDistinct(list) ==
    \A i, j \in 1..Len(list) : i # j => list[i].kind # list[j].kind

AddConstraintEffect ==
    cmd'.name = "add-constraint" =>
        LET parsed == parse_constraint_kind(cmd'.kind, cmd'.args)
            new == [kind |-> parsed.value, weight |-> cmd'.weight]
            before == ctx.constraints
            after == ctx'.constraints
        IN  IF ~parsed.some
            THEN after = before
            ELSE IF \E k \in 1..Len(before) : before[k].kind = new.kind
            THEN /\ Len(after) = Len(before)
                 /\ \A k \in 1..Len(before) :
                       after[k] = IF before[k].kind = new.kind THEN new ELSE before[k]
            ELSE after = Append(before, new)

(* C19: after any sequence of add-constraint and remove-constraint commands
   from an empty context no two stored constraints have the same kind with
   the same arguments; add-constraint with a kind and arguments already
   stored replaces the weight in place, the list as long as before, and
   otherwise appends the constraint at the end. *)
C19_KindsUniqueReplaceWeight ==
    /\ []KindsDistinct(ctx.constraints)
    /\ [][AddConstraintEffect]_vars

(* C19 witness: the first of three stored constraints has just had its
   weight replaced, and Adjacent(A, B) and Adjacent(B, A) are both stored. *)
C19_Witness ==
    /\ cmd.name = "add-constraint"
    /\ out.status = "Replaced constraint"
    /\ Len(ctx.constraints) = 3
    /\ ctx.constraints[1].kind = parse_constraint_kind(cmd.kind, cmd.args).value
    /\ ctx.constraints[1].weight = 2
    /\ \E i, j \in 2..3 :
          /\ ctx.constraints[i].kind = Adjacent("A", "B")
          /\ ctx.constraints[j].kind = Adjacent("B", "A")
    /\ files[DEFAULT_CONTEXT_PATH].data = ctx

RemoveConstraintEffect ==
    cmd'.name = "remove-constraint" =>
        LET before == ctx.constraints
            after == ctx'.constraints
            at == cmd'.index + 1
        IN  IF cmd'.index < Len(before)
            THEN /\ Len(after) = Len(before) - 1
                 /\ \A k \in 1..Len(after) :
                       after[k] = IF k < at THEN before[k] ELSE before[k + 1]
                 /\ out'.status = "Removed constraint"
                 /\ files'[DEFAULT_CONTEXT_PATH].data = ctx'
            ELSE /\ after = before
                 /\ out'.status = "Index out of range"
                 /\ files' = files

(* C20: remove-constraint with an index below the number of stored
   constraints removes the constraint at that index and keeps the others in
   their order, one constraint fewer; with an index out of range it reports
   the failure and leaves the list and the saved context as they were. *)
C20_RemoveByIndex ==
    [][RemoveConstraintEffect]_vars

(* C20 witness: the second of three stored constraints has just been
   removed, the first and the third are left in that order, and the saved
   context is the new one. *)
C20_Witness ==
    /\ cmd.name = "remove-constraint"
    /\ cmd.index = 1
    /\ out.status = "Removed constraint"
    /\ Len(ctx.constraints) = 2
    /\ ctx.constraints[1].kind = AtPosition("A", 1)
    /\ ctx.constraints[2].kind = OnSameSide("A", "A")
    /\ files[DEFAULT_CONTEXT_PATH].data = ctx

-----------------------------------------------------------------------------
(* The add-constraint command of the binary, from the load of the context
   file to the save, on a context file that may not exist yet *)

(* ProgramContext::save of the binary on a given file system *)
save(fs, path, c) == [fs EXCEPT ![path] = FileOf(c)]

(* ProgramContext::load_or_create of the binary: the stored context of an
   existing file, and for a path with no file the default context, which is
   saved at the path before it is returned *)
load_or_create(fs, path) ==
    IF fs[path].exists
    THEN [ctx |-> fs[path].data, files |-> fs, created |-> FALSE]
    ELSE [ctx |-> EmptyContext, files |-> save(fs, path, EmptyContext),
          created |-> TRUE]

(* What the match on the kind writes on stderr, "" when it writes nothing *)
constraint_kind_eprintln(kind, args) ==
    LET k == to_lowercase(kind)
    IN  CASE k = "atpos" ->
                IF Len(args) = 2
                THEN IF parse_usize(args[2]).some
                     THEN ""
                     ELSE "Invalid position number"
                ELSE "AtPosition constraint requires exactly 2 arguments"
          [] k = "adjacent" ->
                IF Len(args) = 2
                THEN ""
                ELSE "Adjacent constraint requires exactly 2 arguments"
          [] k = "onsameside" ->
                IF Len(args) = 2
                THEN ""
                ELSE "OnSameSide constraint requires exactly 2 arguments"
          [] OTHER -> "Unknown constraint kind"

(* The Commands::AddConstraint arm of main: load or create the context at
   --context, match on the kind, and only for a kind that parsed add or
   replace the constraint and save *)
AddConstraintArm(path, kind, args, weight) ==
    LET loaded == load_or_create(files, path)
        constraint_kind_opt == parse_constraint_kind(kind, args)
        done == add_or_replace_constraint(loaded.ctx,
                    [kind |-> constraint_kind_opt.value, weight |-> weight])
    IN  /\ cmd' = [name |-> "add-constraint", context |-> path, kind |-> kind,
                   args |-> args, weight |-> weight]
        /\ ctx' = IF constraint_kind_opt.some THEN done.ctx ELSE loaded.ctx
        /\ files' = IF constraint_kind_opt.some
                    THEN save(loaded.files, path, done.ctx)
                    ELSE loaded.files
        /\ out' = [status |-> IF constraint_kind_opt.some THEN done.printed ELSE "",
                   stderr |-> constraint_kind_eprintln(kind, args),
                   created |-> loaded.created,
                   saved |-> constraint_kind_opt.some]

(* The --kind and --args tried together: two that parse and six that do
   not, for each of the reasons the match has *)
AddConstraintInputs ==
    { [kind |-> "atpos", args |-> <<"A", "1">>],
      [kind |-> "Adjacent", args |-> <<"A", "B">>],
      [kind |-> "atpos", args |-> <<"A", "first">>],
      [kind |-> "atpos", args |-> <<"A", "-1">>],
      [kind |-> "atpos", args |-> <<"A">>],
      [kind |-> "adjacent", args |-> <<"A", "B", "C">>],
      [kind |-> "OnSameSide", args |-> <<>>],
      [kind |-> "between", args |-> <<"A", "B">>] }

(* No context file has been written yet *)
InitAddConstraint ==
    /\ ctx = EmptyContext
    /\ cmd = NoCommand
    /\ out = NoOutput
    /\ files = [p \in Paths |-> NoFile]

NextAddConstraint ==
    \E path \in Paths, i \in AddConstraintInputs, weight \in WeightInputs :
        AddConstraintArm(path, i.kind, i.args, weight)

SpecAddConstraint == InitAddConstraint /\ [][NextAddConstraint]_vars

-----------------------------------------------------------------------------
(* The kind is none of atpos, adjacent and onsameside whatever the case of
   its letters, or the arguments are not two, or the position of an atpos is
   no unsigned number *)
NotAConstraint(kind, args) ==
    \/ to_lowercase(kind) \notin {"atpos", "adjacent", "onsameside"}
    \/ Len(args) # 2
    \/ /\ to_lowercase(kind) = "atpos"
       /\ args[2] \notin {"0", "1"}

RejectedConstraintEffect ==
    (cmd'.name = "add-constraint" /\ NotAConstraint(cmd'.kind, cmd'.args)) =>
        LET path == cmd'.context
        IN  /\ out'.stderr # ""
            /\ out'.status = ""
            /\ ~out'.saved
            /\ IF files[path].exists
               THEN /\ ctx' = files[path].data
                    /\ files' = files
               ELSE /\ ctx' = EmptyContext
                    /\ files' = [files EXCEPT ![path] = FileOf(EmptyContext)]

(* C21: add-constraint with a kind that is none of atpos, adjacent and
   onsameside compared without regard to case, with a number of arguments
   other than 2, or with a position for atpos that is no number, writes a
   message on stderr and adds no constraint: the context it ends with is the
   one it loaded, and the command does not save it; the context file is as
   it was before the command, or, when there was none, holds the empty
   context that loading creates. *)
C21_InvalidConstraintRejected ==
    [][RejectedConstraintEffect]_vars

(* C21 witness: a context file with two stored constraints has just been
   through an add-constraint with a position that is no number, and still
   holds the two. *)
C21_Witness ==
    /\ cmd.name = "add-constraint"
    /\ cmd.kind = "atpos"
    /\ cmd.args = <<"A", "first">>
    /\ out.stderr = "Invalid position number"
    /\ ~out.saved
    /\ Len(ctx.constraints) = 2
    /\ files[cmd.context] = FileOf(ctx)

-----------------------------------------------------------------------------
(* The orderings that propose handed to score_tracklist, each as the
   tracklist it was scored as *)
ScoredOrderings == [e \in 1..Len(out.scored) |-> OrderingOf(out.scored[e])]

(* C22: the feasibility check on an ordering comes before the ordering is
   scored, and score_tracklist is never invoked on an ordering that the
   greedy allocation marks infeasible: every ordering that propose scored
   fits the medium. *)
C22_ScorerOnlyOnFeasible ==
    Proposed =>
        \A e \in 1..Len(ScoredOrderings) : fits(StoredMedium, ScoredOrderings[e])

-----------------------------------------------------------------------------
(* C23: for every ordering and every medium, each side of the partition
   that split_tracklist_by_side returns is non-empty and has a total
   duration of at most max_duration_per_side. *)
C23_SidesNonEmptyWithinCapacity ==
    SplitDone =>
        \A k \in 1..Len(SplitResult) :
            /\ SplitResult[k] # <<>>
            /\ SumSeq(Durations(SplitResult[k])) <= StoredMedium.max_duration_per_side

=============================================================================
